---- MODULE Spec2Model ----
(***************************************************************************)
(* SafeContract: the heuristic audit engine of src/lib/audit.ts.           *)
(*                                                                         *)
(* analyzeContract(request) is modelled as a state machine over one        *)
(* request: the position pc walks through the statements of                *)
(* analyzeContract (lines 12-39), and every function it calls is an        *)
(* operator computed as the code computes it.  Source text is a TLA+       *)
(* string per line; the substring and regular-expression tests of the      *)
(* detectors are evaluated character by character on those strings.        *)
(*                                                                         *)
(* code is kept as code.split("\n"): the sequence of its lines.  A string  *)
(* and its split determine each other (the empty string is the one-line    *)
(* sequence <<"">>), and no pattern of audit.ts except calculateMetrics'   *)
(* header counter can match across a newline.                              *)
(*                                                                         *)
(* The page that calls the engine is modelled where a property needs it:   *)
(* a repeated call of handleAuditSubmit (page.tsx:28-36) and the copilot   *)
(* chat of TamboChat.tsx with its route /api/copilot.                      *)
(***************************************************************************)
EXTENDS Integers, Sequences, FiniteSets, TLC

VARIABLES
    pc,               \* position inside analyzeContract
    inputType,        \* request.inputType
    lines,            \* request.code, as code.split("\n")
    vulnerabilities,  \* const vulnerabilities (audit.ts:25)
    metrics,          \* const metrics (audit.ts:26)
    riskScore,        \* const riskScore (audit.ts:27)
    riskLevel,        \* const riskLevel (audit.ts:28)
    result,           \* the AuditResult the promise resolves to, or None
    error,            \* the Error the promise rejects with, or None
    returned,         \* the AuditResults of the earlier calls with this request
    chat              \* the copilot chat of the page (TamboChat.tsx:309-314)

vars == <<pc, inputType, lines, vulnerabilities, metrics, riskScore, riskLevel, result, error,
          returned, chat>>

None == "none"

-----------------------------------------------------------------------------
(* Bounds of the checked instances.                                        *)

\* longest source, in lines, of the general specification
MaxLines == 4
\* longest source of the reentrancy specification
MaxFlowLines == 5
\* longest source of the unchecked-call specification
MaxCallLines == 7

\* the longest source of the access-control specification, in lines
MaxAccessLines == 4

\* the longest source of the overflow specification, in lines
MaxOverflowLines == 3

\* the longest finding list handed to calculateRiskScore on its own
MaxFindings == 5

\* the longest source of the segmentation specification, in lines
MaxParseLines == 4

\* the longest source of the declaration-header specification, in lines
MaxHeaderLines == 3

\* the longest source of the detector-order specification, in lines
MaxOrderLines == 4

\* the most calls that follow the first call with one request
MaxRepeats == 2

\* the longest source of the metrics specification, in lines
MaxCountLines == 4

\* the most user messages one chat accepts
MaxChat == 3

-----------------------------------------------------------------------------
(* JavaScript string primitives.                                           *)

Min(a, b) == IF a < b THEN a ELSE b

CharAt(s, i) == SubSeq(s, i, i)

\* String.prototype.includes
Includes(s, p) ==
    \E i \in 1..(Len(s) - Len(p) + 1) : SubSeq(s, i, i + Len(p) - 1) = p

\* p occurs in s starting at index i (1-based)
MatchAt(s, i, p) ==
    /\ i >= 1
    /\ i + Len(p) - 1 <= Len(s)
    /\ SubSeq(s, i, i + Len(p) - 1) = p

\* String.prototype.startsWith
StartsWith(s, p) == MatchAt(s, 1, p)

\* the regular-expression class \s, on the characters a source line holds
IsSpace(c) == c \in {" ", "\t", "\r", "\n"}

\* the regular-expression class \w
IsWord(c) ==
    c \in {"a", "b", "c", "d", "e", "f", "g", "h", "i", "j", "k", "l", "m",
           "n", "o", "p", "q", "r", "s", "t", "u", "v", "w", "x", "y", "z",
           "A", "B", "C", "D", "E", "F", "G", "H", "I", "J", "K", "L", "M",
           "N", "O", "P", "Q", "R", "S", "T", "U", "V", "W", "X", "Y", "Z",
           "0", "1", "2", "3", "4", "5", "6", "7", "8", "9", "_"}

\* String.prototype.trim
Trim(s) ==
    LET keep == {i \in 1..Len(s) : ~IsSpace(CharAt(s, i))}
    IN  IF keep = {} THEN ""
        ELSE LET first == CHOOSE i \in keep : \A j \in keep : i <= j
                 last  == CHOOSE i \in keep : \A j \in keep : j <= i
             IN  SubSeq(s, first, last)

\* the index after a greedy \s* that starts at index i
SkipSpace(s, i) ==
    LET stop == {j \in i..Len(s) : ~IsSpace(CharAt(s, j))}
    IN  IF stop = {} THEN Len(s) + 1
        ELSE CHOOSE j \in stop : \A k \in stop : j <= k

\* the index after a greedy \w* that starts at index i
SkipWord(s, i) ==
    LET stop == {j \in i..Len(s) : ~IsWord(CharAt(s, j))}
    IN  IF stop = {} THEN Len(s) + 1
        ELSE CHOOSE j \in stop : \A k \in stop : j <= k

\* number of occurrences of the one-character string c in s
CountChar(s, c) == Cardinality({i \in 1..Len(s) : CharAt(s, i) = c})

\* the regular expression  word \s* open .* tail  (as in /require\s*\(.*success/)
WordOpenThen(s, word, open, tail) ==
    \E i \in 1..Len(s) :
        /\ MatchAt(s, i, word)
        /\ LET j == SkipSpace(s, i + Len(word))
           IN  /\ MatchAt(s, j, open)
               /\ \E k \in (j + Len(open))..Len(s) : MatchAt(s, k, tail)

\* the regular expression  head .* \] \s* =  (as in /balances\[.*\]\s*=/)
IndexedAssign(s, head) ==
    \E i \in 1..Len(s) :
        /\ MatchAt(s, i, head)
        /\ \E j \in (i + Len(head))..Len(s) :
              /\ CharAt(s, j) = "]"
              /\ MatchAt(s, SkipSpace(s, j + 1), "=")

-----------------------------------------------------------------------------
(* The source lines the checked instances are built from.                  *)

\* lines of the general specification
SampleLines ==
    { "pragma solidity ^0.8.0;",
      "function f() public { x += 1; }",
      "function g() public payable {",
      "  a.send(1);",
      "  b = 0;",
      "}",
      "" }

\* lines of the reentrancy specification
FlowLines ==
    { "function f() public {",
      "  (ok, ) = a.call{value: 1}(x);",
      "  b = 0;",
      "}",
      "  // nonReentrant: a.send(1); b = 0;",
      "contract C is ReentrancyGuard {" }

\* lines of the unchecked-call specification
CallLines ==
    { "a.send(1);",
      "require(success);",
      "t.delegatecall(d);",
      "require(a.send(1));" }

\* lines of the access-control specification
AccessLines ==
    { "function f() public {",
      "function p() public payable {",
      "function g() external payable { y = 1; }",
      "function i() internal { y = 1; }",
      "  y = 1;",
      "  require(msg.sender == owner);",
      "}" }

\* lines of the overflow specification
OverflowLines ==
    { "pragma solidity 0.8.20;",
      "pragma solidity ^0.8.0;",
      "pragma solidity 0.7.6;",
      "x += 1;",
      "/* y -= 1; */",
      "// z += 1;" }

\* lines of the segmentation specification
ParseLines ==
    { "function f() public {",
      "function h()",
      "function g() external { y = 1; }",
      "  if (x) {",
      "  } else {",
      "}" }

\* lines of the declaration-header specification
HeaderLines ==
    { "function a() external payable { y = 1; }",
      "function b() payable external { y = 1; }",
      "function c() public virtual payable { y = 1; }",
      "function d() view returns (uint) { return y; }",
      "function e() private {",
      "}" }

\* lines of the detector-order specification: a one-line function two
\* detectors report, and a function three detectors report
OrderLines ==
    { "function f() public { x += 1; }",
      "function g() public payable {",
      "  a.send(1);",
      "  b = 0;",
      "}" }

\* lines of the metrics specification: a function on one line, a header
\* whose block stays open, blank lines, the keyword in a comment and the
\* keyword at the end of a line
CountLines ==
    { "function f() public { x += 1; }",
      "function g() public payable {",
      "",
      "  ",
      "// a function that pays",
      "  function" }

AllLines ==
    SampleLines \cup FlowLines \cup CallLines \cup AccessLines \cup OverflowLines
        \cup ParseLines \cup HeaderLines \cup OrderLines \cup CountLines
        \cup {""}

-----------------------------------------------------------------------------
(* parseFunctions (audit.ts:56-107)                                        *)

NoMatch == [matched |-> FALSE, name |-> "", visibility |-> None, payable |-> FALSE]

\* the index of the first occurrence of the character c at or after index i,
\* Len(s) + 1 if there is none
FirstChar(s, i, c) ==
    LET hits == {j \in i..Len(s) : CharAt(s, j) = c}
    IN  IF hits = {} THEN Len(s) + 1
        ELSE CHOOSE j \in hits : \A k \in hits : j <= k

\* (public|external|internal|private)? at index i: the first alternative that matches
VisibilityAt(s, i) ==
    IF MatchAt(s, i, "public") THEN "public"
    ELSE IF MatchAt(s, i, "external") THEN "external"
    ELSE IF MatchAt(s, i, "internal") THEN "internal"
    ELSE IF MatchAt(s, i, "private") THEN "private"
    ELSE None

\* The header pattern (audit.ts:71), matched part by part from index i:
\*   function \s+ (\w+) \s* \( [^)]* \) \s* (public|external|internal|private)? \s* (payable)?
\* Every optional part is greedy and nothing is required behind it, so the
\* first attempt of each part is the one the match keeps.

\* \s* (payable)?
HeaderPayable(s, name, visStart, vis) ==
    [matched    |-> TRUE,
     name       |-> name,
     visibility |-> vis,
     payable    |-> MatchAt(s, SkipSpace(s, visStart + (IF vis = None THEN 0 ELSE Len(vis))),
                            "payable")]

\* (public|external|internal|private)?
HeaderVisibility(s, name, visStart) ==
    HeaderPayable(s, name, visStart, VisibilityAt(s, visStart))

\* \) \s*
HeaderClose(s, name, close) ==
    IF close <= Len(s) THEN HeaderVisibility(s, name, SkipSpace(s, close + 1)) ELSE NoMatch

\* \( [^)]*
HeaderParams(s, name, open) ==
    IF MatchAt(s, open, "(") THEN HeaderClose(s, name, FirstChar(s, open + 1, ")")) ELSE NoMatch

\* (\w+) \s*
HeaderName(s, nameStart, nameEnd) ==
    IF nameEnd > nameStart
    THEN HeaderParams(s, SubSeq(s, nameStart, nameEnd - 1), SkipSpace(s, nameEnd))
    ELSE NoMatch

\* \s+
HeaderGap(s, afterKeyword, nameStart) ==
    IF nameStart > afterKeyword
    THEN HeaderName(s, nameStart, SkipWord(s, nameStart))
    ELSE NoMatch

\* function
HeaderAt(s, i) ==
    IF MatchAt(s, i, "function")
    THEN HeaderGap(s, i + Len("function"), SkipSpace(s, i + Len("function")))
    ELSE NoMatch

\* trimmed.match(/function.../): the leftmost match
FunctionMatch(trimmed) ==
    LET hits == {i \in 1..Len(trimmed) : HeaderAt(trimmed, i).matched}
    IN  IF hits = {} THEN NoMatch
        ELSE HeaderAt(trimmed, CHOOSE i \in hits : \A j \in hits : i <= j)

\* the net effect on braceDepth of the loop over the characters of a line
BraceDelta(line) == CountChar(line, "{") - CountChar(line, "}")

\* per-line results of the tests parseFunctions makes, computed once per line
parseScan ==
    [l \in AllLines |->
        [functionMatch |-> FunctionMatch(Trim(l)),
         braces        |-> BraceDelta(l),
         closes        |-> Includes(Trim(l), "}")]]

NoFunction ==
    [name |-> "", visibility |-> "public", payable |-> FALSE, body |-> <<>>, lineStart |-> 0]

\* the locals of parseFunctions before the loop (audit.ts:57-63);
\* currentFunction = null is kept as inFunction = FALSE
ParseStart ==
    [currentFunction |-> NoFunction, inFunction |-> FALSE, braceDepth |-> 0, functions |-> <<>>]

\* lines 74-85 without the test !inFunction
OpenFunctionAnyTime(st, i, m) ==
    IF m.matched
    THEN [st EXCEPT !.currentFunction =
                        [name       |-> m.name,
                         visibility |-> IF m.visibility = None THEN "public" ELSE m.visibility,
                         payable    |-> m.payable,
                         body       |-> <<>>,
                         lineStart  |-> i],
                    !.inFunction = TRUE,
                    !.braceDepth = 0]
    ELSE st

\* audit.ts:74-85: a header opens a record only while none is open
OpenFunction(st, i, m) ==
    IF m.matched /\ ~st.inFunction
    THEN [st EXCEPT !.currentFunction =
                        [name       |-> m.name,
                         visibility |-> IF m.visibility = None THEN "public" ELSE m.visibility,
                         payable    |-> m.payable,
                         body       |-> <<>>,
                         lineStart  |-> i],
                    !.inFunction = TRUE,
                    !.braceDepth = 0]
    ELSE st

\* lines 96-102 with the test of line 97 reduced to trimmed.includes("}")
CloseFunctionAtAnyBrace(st, i, closes) ==
    IF closes
    THEN [st EXCEPT !.functions =
                        Append(@, [name       |-> st.currentFunction.name,
                                   visibility |-> st.currentFunction.visibility,
                                   payable    |-> st.currentFunction.payable,
                                   body       |-> st.currentFunction.body,
                                   lineStart  |-> st.currentFunction.lineStart,
                                   lineEnd    |-> i]),
                    !.currentFunction = NoFunction,
                    !.inFunction = FALSE]
    ELSE st

\* lines 96-102 with the test of line 97 reduced to braceDepth === 0
CloseFunctionAtDepthZero(st, i, closes) ==
    IF st.braceDepth = 0
    THEN [st EXCEPT !.functions =
                        Append(@, [name       |-> st.currentFunction.name,
                                   visibility |-> st.currentFunction.visibility,
                                   payable    |-> st.currentFunction.payable,
                                   body       |-> st.currentFunction.body,
                                   lineStart  |-> st.currentFunction.lineStart,
                                   lineEnd    |-> i]),
                    !.currentFunction = NoFunction,
                    !.inFunction = FALSE]
    ELSE st

\* audit.ts:96-102
CloseFunction(st, i, closes) ==
    IF st.braceDepth = 0 /\ closes
    THEN [st EXCEPT !.functions =
                        Append(@, [name       |-> st.currentFunction.name,
                                   visibility |-> st.currentFunction.visibility,
                                   payable    |-> st.currentFunction.payable,
                                   body       |-> st.currentFunction.body,
                                   lineStart  |-> st.currentFunction.lineStart,
                                   lineEnd    |-> i]),
                    !.currentFunction = NoFunction,
                    !.inFunction = FALSE]
    ELSE st

\* audit.ts:87-103
CountAndClose(st, line, i, sc) ==
    IF st.inFunction
    THEN CloseFunction([st EXCEPT !.braceDepth = @ + sc.braces,
                                  !.currentFunction.body = Append(@, line)],
                       i, sc.closes)
    ELSE st

\* one iteration of the loop (audit.ts:65-104) on line i (1-based: i + 1 of the code)
ParseStep(st, line, i, sc) ==
    CountAndClose(OpenFunction(st, i, sc.functionMatch), line, i, sc)

RECURSIVE ParseLoop(_, _, _)
ParseLoop(ls, i, st) ==
    IF i > Len(ls) THEN st.functions
    ELSE ParseLoop(ls, i + 1, ParseStep(st, ls[i], i, parseScan[ls[i]]))

\* body is kept as the sequence of the lines appended to it; each was appended
\* with a "\n" behind it, so body.split("\n") is this sequence and one "" more
parseFunctions(code) == ParseLoop(code, 1, ParseStart)

-----------------------------------------------------------------------------
(* detectVulnerabilities (audit.ts:112-400)                                *)

ReentrancyTitle == "Reentrancy Vulnerability: External Call Before State Update"
UncheckedTitle  == "Unchecked External Call"
OverflowTitle   == "Potential Integer Overflow/Underflow (Solidity <0.8.0)"
AccessTitle     == "Missing Access Control"
PayableTitle    == "Missing Access Control on Payable Function"
InfoTitle       == "No Critical Issues Detected"

Titles == {ReentrancyTitle, UncheckedTitle, OverflowTitle, AccessTitle, PayableTitle, InfoTitle}

\* String.prototype.toLowerCase, on the letters a title holds
LowerChar(c) ==
    CASE c = "A" -> "a" [] c = "B" -> "b" [] c = "C" -> "c" [] c = "D" -> "d"
      [] c = "E" -> "e" [] c = "F" -> "f" [] c = "I" -> "i" [] c = "M" -> "m"
      [] c = "N" -> "n" [] c = "O" -> "o" [] c = "P" -> "p" [] c = "R" -> "r"
      [] c = "S" -> "s" [] c = "U" -> "u" [] c = "V" -> "v"
      [] OTHER -> c

RECURSIVE ToLowerCase(_)
ToLowerCase(s) ==
    IF Len(s) = 0 THEN ""
    ELSE LowerChar(CharAt(s, 1)) \o ToLowerCase(SubSeq(s, 2, Len(s)))

\* the two title tests of the duplicate filters (audit.ts:183, 355)
titleScan ==
    [t \in Titles |->
        [reentrancy |-> Includes(ToLowerCase(t), "reentrancy"),
         access     |-> Includes(t, "Missing Access Control")]]

\* audit.ts:137-141
IsCommentLine(trimmed) ==
    \/ StartsWith(trimmed, "//")
    \/ StartsWith(trimmed, "*")
    \/ StartsWith(trimmed, "/*")

\* audit.ts:147
IsExternalCall(trimmed) ==
    \/ Includes(trimmed, ".call{")
    \/ Includes(trimmed, ".call(")
    \/ Includes(trimmed, ".send(")
    \/ Includes(trimmed, ".transfer(")
    \/ Includes(trimmed, ".delegatecall(")
    \/ Includes(trimmed, ".staticcall(")

\* audit.ts:155-164
IsStateUpdate(trimmed) ==
    \/ /\ Includes(trimmed, "=")
       /\ ~Includes(trimmed, "==")
       /\ ~Includes(trimmed, "!=")
       /\ ~Includes(trimmed, "memory")
       /\ ~Includes(trimmed, "calldata")
       /\ ~Includes(trimmed, "if")
       /\ ~Includes(trimmed, "require")
       /\ ~Includes(trimmed, "assert")
    \/ IndexedAssign(trimmed, "balances[")
    \/ IndexedAssign(trimmed, "mapping[")
    \/ Includes(trimmed, "++")
    \/ Includes(trimmed, "--")

\* audit.ts:225-227
CallMatch(trimmed) ==
    \/ Includes(trimmed, ".call{")
    \/ Includes(trimmed, ".call(")
    \/ Includes(trimmed, ".send(")
    \/ Includes(trimmed, ".transfer(")

\* audit.ts:231-235
HasReturnCheck(trimmed) ==
    \/ Includes(trimmed, "require")
    \/ Includes(trimmed, "if")
    \/ Includes(trimmed, "bool success")
    \/ Includes(trimmed, "(bool,")

\* audit.ts:240, the test applied to each of the next lines
IsLaterCheck(nextLine) ==
    \/ WordOpenThen(nextLine, "require", "(", "success")
    \/ WordOpenThen(nextLine, "if", "(", "success")

\* audit.ts:265-267, on one line of the source
IsPragma08(line) ==
    \/ Includes(line, "pragma solidity ^0.8")
    \/ Includes(line, "pragma solidity >=0.8")
    \/ Includes(line, "pragma solidity >0.8")

\* audit.ts:277-281
IsSkippedForOverflow(trimmed) ==
    \/ StartsWith(trimmed, "//")
    \/ StartsWith(trimmed, "pragma")
    \/ StartsWith(trimmed, "import")

\* audit.ts:287-291
HasArithmetic(trimmed) ==
    \/ Includes(trimmed, "++")
    \/ Includes(trimmed, "+=")
    \/ Includes(trimmed, "-=")
    \/ (Includes(trimmed, "*") /\ Includes(trimmed, "="))

\* audit.ts:293-303, without the foundArithmetic flag
IsOverflowLine(trimmed) ==
    /\ HasArithmetic(trimmed)
    /\ ~Includes(trimmed, "SafeMath")
    /\ ~Includes(trimmed, "unchecked")
    /\ Includes(trimmed, "=")
    /\ (Includes(trimmed, ";") \/ Includes(trimmed, "}"))

\* audit.ts:330-333, on one line of a body
IsAccessControlLine(line) ==
    \/ Includes(line, "onlyOwner")
    \/ Includes(line, "onlyRole")
    \/ Includes(line, "require(msg.sender")
    \/ Includes(line, "require(_msgSender()")

\* per-line results of the tests detectVulnerabilities makes, computed once per line
detectScan ==
    [l \in AllLines |->
        LET trimmed == Trim(l)
        IN  [trimmed       |-> trimmed,
             comment       |-> IsCommentLine(trimmed),
             externalCall  |-> IsExternalCall(trimmed),
             stateUpdate   |-> IsStateUpdate(trimmed),
             nonReentrant  |-> Includes(l, "nonReentrant"),
             guardContract |-> Includes(l, "ReentrancyGuard"),
             callMatch     |-> CallMatch(trimmed),
             returnCheck   |-> HasReturnCheck(trimmed),
             laterCheck    |-> IsLaterCheck(l),
             pragma08      |-> IsPragma08(l),
             overflowSkip  |-> IsSkippedForOverflow(trimmed),
             overflowLine  |-> IsOverflowLine(trimmed),
             accessControl |-> IsAccessControlLine(l),
             assigns       |-> Includes(l, "="),
             memory        |-> Includes(l, "memory"),
             transfer      |-> Includes(l, "transfer"),
             mint          |-> Includes(l, "mint"),
             burn          |-> Includes(l, "burn")]]

\* s.includes(p) for a text kept as its lines and a pattern p without newline
AnyLine(ls, test) == \E i \in 1..Len(ls) : detectScan[ls[i]][test]

\* a finding; codeContext is the empty record for the informational finding.
\* description and suggestedFix are kept as the tuple of the template used
\* and the values put into it; the snippet of codeContext is the text of
\* the lines it names.
Finding(id, title, severity, description, codeContext, suggestedFix) ==
    [id |-> id, title |-> title, severity |-> severity,
     description |-> description, codeContext |-> codeContext,
     suggestedFix |-> suggestedFix]

Context(lineStart, lineEnd) == [lineStart |-> lineStart, lineEnd |-> lineEnd]

HasLineStart(v) == "lineStart" \in DOMAIN v.codeContext

\* the id template with a counter that goes on from call to call
NextIdAcrossCalls(prefix, vulns) ==
    prefix \o "-" \o ToString(Len(vulns) + 1 + Len(returned))

\* the id template with the counter left at 1
NextIdFirst(prefix, vulns) == prefix \o "-1"

\* `${prefix}-${vulnerabilities.length + 1}`
NextId(prefix, vulns) == prefix \o "-" \o ToString(Len(vulns) + 1)

\* codeContext: {} (audit.ts:393)
NoContext == [k \in {} |-> 0]

\* audit.ts:136-168 on one line: does it count for the list named test?
Counts(sc, test) == ~sc.comment /\ sc[test]

\* the line numbers func.lineStart + i of the lines of funcLines that are not
\* comments and pass the test (audit.ts:132-169); i is 0-based in the code
RECURSIVE PickLines(_, _, _, _)
PickLines(funcLines, test, i, lineStart) ==
    IF i > Len(funcLines) THEN <<>>
    ELSE (IF Counts(detectScan[funcLines[i]], test) THEN <<lineStart + (i - 1)>> ELSE <<>>)
         \o PickLines(funcLines, test, i + 1, lineStart)

\* the test of lines 125-130 with both markers looked up in the whole source
HasReentrancyGuardAnywhere(func, code) ==
    AnyLine(code, "nonReentrant") \/ AnyLine(code, "guardContract")

\* audit.ts:125-130
HasReentrancyGuard(func, code) ==
    AnyLine(func.body, "nonReentrant") \/ AnyLine(code, "guardContract")

\* lines 176-178 with critical for the function without a guard
ReentrancySeverityCritical(hasReentrancyGuard) ==
    IF hasReentrancyGuard THEN "medium" ELSE "critical"

\* audit.ts:176-178
ReentrancySeverity(hasReentrancyGuard) == IF hasReentrancyGuard THEN "medium" ELSE "high"

\* the comparison of line 174 with <= in the place of <
PrecedesOrSame(callLine, updateLine) == callLine <= updateLine

\* audit.ts:174
Precedes(callLine, updateLine) == callLine < updateLine

\* the inner loop (audit.ts:173-215): the first update line, in list order,
\* that the call line precedes; 0 if there is none
FirstUpdateAfter(callLine, stateUpdateLines) ==
    LET hits == {k \in 1..Len(stateUpdateLines) : Precedes(callLine, stateUpdateLines[k])}
    IN  IF hits = {} THEN 0
        ELSE stateUpdateLines[CHOOSE k \in hits : \A j \in hits : k <= j]

\* audit.ts:181-185
IsReentrancyDuplicate(vulns, callLine) ==
    \E k \in 1..Len(vulns) :
        /\ titleScan[vulns[k].title].reentrancy
        /\ HasLineStart(vulns[k])
        /\ vulns[k].codeContext.lineStart = callLine

\* audit.ts:174-213 for one call line and the update line the inner loop stops at
ReentrancyPush(vulns, severity, callLine, updateLine) ==
    IF updateLine # 0 /\ ~IsReentrancyDuplicate(vulns, callLine)
    THEN Append(vulns,
             Finding(NextId("reentrancy-flow", vulns), ReentrancyTitle, severity,
                     <<"reentrancy", callLine, updateLine>>, Context(callLine, updateLine),
                     <<"checks-effects-interactions">>))
    ELSE vulns

\* the outer loop (audit.ts:172-216) from the c-th call line on
RECURSIVE ReentrancyCalls(_, _, _, _, _)
ReentrancyCalls(vulns, severity, externalCallLines, stateUpdateLines, c) ==
    IF c > Len(externalCallLines) THEN vulns
    ELSE ReentrancyCalls(
             ReentrancyPush(vulns, severity, externalCallLines[c],
                            FirstUpdateAfter(externalCallLines[c], stateUpdateLines)),
             severity, externalCallLines, stateUpdateLines, c + 1)

\* the body of the loop over the functions (audit.ts:118-217)
ReentrancyOfFunction(vulns, func, code) ==
    ReentrancyCalls(vulns,
                    ReentrancySeverity(HasReentrancyGuard(func, code)),
                    PickLines(Append(func.body, ""), "externalCall", 1, func.lineStart),
                    PickLines(Append(func.body, ""), "stateUpdate", 1, func.lineStart),
                    1)

RECURSIVE ReentrancyLoop(_, _, _, _)
ReentrancyLoop(vulns, functions, code, f) ==
    IF f > Len(functions) THEN vulns
    ELSE ReentrancyLoop(ReentrancyOfFunction(vulns, functions[f], code), functions, code, f + 1)

\* the reentrancy detector (audit.ts:117-217)
DetectReentrancy(vulns, code, functions) == ReentrancyLoop(vulns, functions, code, 1)

\* the lookahead of the unchecked-call detector (audit.ts:238)
Lookahead == 5

\* the slice of line 238 taken one line too long
NextLinesOneMore(code, lineNum) == (lineNum + 1)..Min(lineNum + Lookahead + 1, Len(code))

\* lines.slice(lineNum, Math.min(lineNum + 5, lines.length)), as 1-based indices
NextLines(code, lineNum) == (lineNum + 1)..Min(lineNum + Lookahead, Len(code))

\* audit.ts:239-241
HasLaterCheck(code, lineNum) ==
    \E k \in NextLines(code, lineNum) : detectScan[code[k]].laterCheck

\* audit.ts:229, 243
IsUnchecked(sc, hasLaterCheck) == sc.callMatch /\ ~sc.returnCheck /\ ~hasLaterCheck

\* the loop of lines 220-260 without its lineNum++
LineNumStuck(n) == 1

\* the value of lineNum at line number n of the loop (audit.ts:220, 260)
LineNum(n) == n

\* audit.ts:243-258
UncheckedPush(vulns, lineNum, unchecked) ==
    IF unchecked
    THEN Append(vulns,
             Finding(NextId("external-call", vulns), UncheckedTitle, "high",
                     <<"unchecked">>, Context(lineNum, lineNum),
                     <<"check the return value">>))
    ELSE vulns

\* the loop over the lines (audit.ts:220-261)
RECURSIVE UncheckedLoop(_, _, _)
UncheckedLoop(vulns, code, n) ==
    IF n > Len(code) THEN vulns
    ELSE UncheckedLoop(
             UncheckedPush(vulns, LineNum(n),
                           IsUnchecked(detectScan[code[n]], HasLaterCheck(code, n))),
             code, n + 1)

\* the unchecked-call detector (audit.ts:219-261)
DetectUncheckedCalls(vulns, code) == UncheckedLoop(vulns, code, 1)

\* audit.ts:264-267
HasSolidity08Plus(code) == AnyLine(code, "pragma08")

\* audit.ts:277-303 on one line, without the flag foundArithmetic
PushesOverflow(sc) == ~sc.overflowSkip /\ sc.overflowLine

\* the push of lines 304-318 without the flag foundArithmetic: every line
\* that qualifies gets a finding
RECURSIVE OverflowPushEach(_, _)
OverflowPushEach(vulns, hits) ==
    IF hits = {} THEN vulns
    ELSE OverflowPushEach(
             Append(vulns,
                 Finding(NextId("overflow", vulns), OverflowTitle, "low", <<"overflow">>,
                         Context(CHOOSE n \in hits : \A m \in hits : n <= m,
                                 CHOOSE n \in hits : \A m \in hits : n <= m),
                         <<"upgrade or SafeMath">>)),
             hits \ {CHOOSE n \in hits : \A m \in hits : n <= m})

\* audit.ts:304-318; the flag foundArithmetic is set by the line that pushes
\* and no later line pushes: the finding is at the first line that qualifies
OverflowPush(vulns, hits) ==
    IF hits = {} THEN vulns
    ELSE Append(vulns,
             Finding(NextId("overflow", vulns), OverflowTitle, "low", <<"overflow">>,
                     Context(CHOOSE n \in hits : \A m \in hits : n <= m,
                             CHOOSE n \in hits : \A m \in hits : n <= m),
                     <<"upgrade or SafeMath">>))

\* the overflow detector (audit.ts:263-323)
DetectOverflow(vulns, code) ==
    IF HasSolidity08Plus(code) THEN vulns
    ELSE OverflowPush(vulns, {n \in 1..Len(code) : PushesOverflow(detectScan[code[n]])})

\* the test of lines 353-357 without the test of the title
IsAccessDuplicateAnyTitle(vulns, func) ==
    \E k \in 1..Len(vulns) :
        /\ HasLineStart(vulns[k])
        /\ vulns[k].codeContext.lineStart = func.lineStart

\* audit.ts:353-357
IsAccessDuplicate(vulns, func) ==
    \E k \in 1..Len(vulns) :
        /\ titleScan[vulns[k].title].access
        /\ HasLineStart(vulns[k])
        /\ vulns[k].codeContext.lineStart = func.lineStart

\* audit.ts:329-333
HasAccessControl(func) == AnyLine(func.body, "accessControl")

\* audit.ts:336-340
IsStateChanging(func) ==
    \/ (AnyLine(func.body, "assigns") /\ ~AnyLine(func.body, "memory"))
    \/ AnyLine(func.body, "transfer")
    \/ AnyLine(func.body, "mint")
    \/ AnyLine(func.body, "burn")

\* audit.ts:342-381
AccessPush(vulns, func, flagged) ==
    IF flagged /\ ~IsAccessDuplicate(vulns, func)
    THEN Append(vulns,
             Finding(NextId("access", vulns),
                     IF func.payable THEN PayableTitle ELSE AccessTitle,
                     IF func.payable THEN "high" ELSE "medium",
                     <<IF func.payable THEN "payable" ELSE "state-changing", func.name>>,
                     Context(func.lineStart, func.lineStart),
                     <<"access control modifiers", func.name>>))
    ELSE vulns

\* the body of the loop over the public functions (audit.ts:328-383)
AccessOfFunction(vulns, func) ==
    AccessPush(vulns, func,
               ~HasAccessControl(func) /\ (func.payable \/ IsStateChanging(func)))

RECURSIVE AccessLoop(_, _, _)
AccessLoop(vulns, publicFunctions, f) ==
    IF f > Len(publicFunctions) THEN vulns
    ELSE AccessLoop(AccessOfFunction(vulns, publicFunctions[f]), publicFunctions, f + 1)

\* the filter of line 326 widened to the external functions
IsPublicOrExternal(func) == func.visibility \in {"public", "external"}

\* audit.ts:326
IsPublic(func) == func.visibility = "public"

\* the access-control detector (audit.ts:325-383)
DetectAccessControl(vulns, functions) ==
    AccessLoop(vulns, SelectSeq(functions, IsPublic), 1)

\* the detectors without the fallback of lines 385-397
FallbackMissing(vulns) == vulns

\* the push of lines 387-396 without the test of line 386
FallbackAlways(vulns) ==
    Append(vulns, Finding("info-1", InfoTitle, "low", <<"info">>, NoContext,
                          <<"professional audit">>))

\* the informational finding (audit.ts:385-397)
Fallback(vulns) ==
    IF Len(vulns) = 0
    THEN Append(vulns, Finding("info-1", InfoTitle, "low", <<"info">>, NoContext,
                          <<"professional audit">>))
    ELSE vulns

\* the four detectors in the order of the code, then the fallback
DetectAll(code, functions) ==
    Fallback(
        DetectAccessControl(
            DetectOverflow(
                DetectUncheckedCalls(
                    DetectReentrancy(<<>>, code, functions),
                    code),
                code),
            functions))

\* audit.ts:112-400
detectVulnerabilities(code) == DetectAll(code, parseFunctions(code))

-----------------------------------------------------------------------------
(* calculateMetrics, calculateRiskScore, getRiskLevel, generateSummary     *)

\* code, from its lines: lines.join("\n")
RECURSIVE JoinLines(_, _)
JoinLines(ls, i) ==
    IF i > Len(ls) THEN ""
    ELSE IF i = Len(ls) THEN ls[i]
    ELSE ls[i] \o "\n" \o JoinLines(ls, i + 1)

\* /function\s+\w+/ matches at index i of s: the index behind the match, else 0
HeaderEnd(s, i) ==
    IF /\ MatchAt(s, i, "function")
       /\ SkipSpace(s, i + Len("function")) > i + Len("function")
       /\ SkipWord(s, SkipSpace(s, i + Len("function"))) > SkipSpace(s, i + Len("function"))
    THEN SkipWord(s, SkipSpace(s, i + Len("function")))
    ELSE 0

\* (code.match(/function\s+\w+/g) || []).length, counted from index from on:
\* each search resumes behind the previous match
RECURSIVE CountHeaders(_, _)
CountHeaders(s, from) ==
    LET hits == {i \in from..Len(s) : HeaderEnd(s, i) # 0}
    IN  IF hits = {} THEN 0
        ELSE 1 + CountHeaders(s, HeaderEnd(s, CHOOSE h \in hits : \A k \in hits : h <= k))

\* the filter of line 417 without the trim
IsNonEmpty(line) == Len(line) > 0

\* line.trim().length > 0 (audit.ts:417)
IsNonBlank(line) == Len(detectScan[line].trimmed) > 0

\* the counts of lines 427-429 with the count of the low findings left at 0
CountSeverityNoLow(vulns, severity) ==
    IF severity = "low" THEN 0
    ELSE Cardinality({k \in 1..Len(vulns) : vulns[k].severity = severity})

\* the number of findings of one severity (audit.ts:427-429)
CountSeverity(vulns, severity) ==
    Cardinality({k \in 1..Len(vulns) : vulns[k].severity = severity})

\* audit.ts:405-440; the code is passed both split into lines and whole
calculateMetrics(codeLines, code, vulns) ==
    [totalVulnerabilities |-> Len(vulns),
     criticalCount        |-> CountSeverity(vulns, "critical"),
     highCount            |-> CountSeverity(vulns, "high"),
     mediumCount          |-> CountSeverity(vulns, "medium"),
     lowCount             |-> CountSeverity(vulns, "low"),
     linesOfCode          |-> Len(SelectSeq(codeLines, IsNonBlank)),
     functionCount        |-> CountHeaders(code, 1)]

\* the switch of lines 450-463 without its case "critical"
WeightNoCritical(severity) ==
    CASE severity = "high"     -> 20
      [] severity = "medium"   -> 10
      [] severity = "low"      -> 5
      [] OTHER                 -> 0

\* the weight the switch adds for one finding (audit.ts:450-463)
Weight(severity) ==
    CASE severity = "critical" -> 30
      [] severity = "high"     -> 20
      [] severity = "medium"   -> 10
      [] severity = "low"      -> 5
      [] OTHER                 -> 0

RECURSIVE SumWeights(_, _)
SumWeights(vulns, k) ==
    IF k > Len(vulns) THEN 0
    ELSE Weight(vulns[k].severity) + SumWeights(vulns, k + 1)

\* lines 445-467 with the sum returned as it is, without Math.min
calculateRiskScoreUncapped(vulns) ==
    IF Len(vulns) = 0 THEN 10
    ELSE SumWeights(vulns, 1)

\* audit.ts:445-467
calculateRiskScore(vulns) ==
    IF Len(vulns) = 0 THEN 10
    ELSE Min(100, SumWeights(vulns, 1))

\* lines 480-482 with the last comparison turned round
getRiskLevelTurned(score) ==
    IF score >= 65 THEN "critical"
    ELSE IF score >= 40 THEN "high"
    ELSE IF score <= 20 THEN "medium"
    ELSE "low"

\* audit.ts:479-484
getRiskLevel(score) ==
    IF score >= 65 THEN "critical"
    ELSE IF score >= 40 THEN "high"
    ELSE IF score >= 20 THEN "medium"
    ELSE "low"

\* audit.ts:494-499
LevelText(level) ==
    CASE level = "low"      -> "relatively secure"
      [] level = "medium"   -> "moderately risky"
      [] level = "high"     -> "highly risky"
      [] level = "critical" -> "critically vulnerable"

\* audit.ts:489-502: the values the template interpolates, in order
generateSummary(level, vulnCount, m) ==
    <<LevelText(level), vulnCount, m.linesOfCode, m.functionCount>>

-----------------------------------------------------------------------------
(* analyzeContract (audit.ts:12-39)                                        *)

InputTypes == {"solidity", "address"}

AddressError == "Address lookup not yet implemented"

\* the chat when the page is loaded (TamboChat.tsx:309-314): no message, not
\* loading, no call of handleSubmit under way, no seed; the server has
\* OPENAI_API_KEY or has not (route.ts:16), unknown to a check of the audit
\* engine alone, which starts without it
ChatOf(hasKey) ==
    [messages       |-> <<>>,
     isLoading      |-> FALSE,
     calls          |-> <<>>,
     currentSeedVuln |-> FALSE,
     timer          |-> "none",
     hasKey         |-> hasKey,
     upstream       |-> 0]

ChatStart == {ChatOf(FALSE)}

\* every text of at most n lines drawn from alphabet
Sources(alphabet, n) == UNION {[1..k -> alphabet] : k \in 1..n}

InitOver(sources) ==
    /\ pc = "called"
    /\ inputType \in InputTypes
    /\ lines \in sources
    /\ vulnerabilities = <<>>
    /\ metrics = <<>>
    /\ riskScore = -1
    /\ riskLevel = None
    /\ result = <<>>
    /\ error = None
    /\ returned = <<>>
    /\ chat \in ChatStart

Init == InitOver(Sources(SampleLines, MaxLines))

InitFlow == InitOver(Sources(FlowLines, MaxFlowLines))

InitCalls == InitOver(Sources(CallLines, MaxCallLines))

InitAccess == InitOver(Sources(AccessLines, MaxAccessLines))

InitOverflow == InitOver(Sources(OverflowLines, MaxOverflowLines))

InitParse == InitOver(Sources(ParseLines, MaxParseLines))

InitHeader == InitOver(Sources(HeaderLines, MaxHeaderLines))

InitOrder == InitOver(Sources(OrderLines, MaxOrderLines))

InitCount == InitOver(Sources(CountLines, MaxCountLines))

\* VulnerabilitySeverity (audit.ts:5), the cases of the switch of lines 450-463
SeverityNames == {"critical", "high", "medium", "low"}

\* a finding of the severity, as calculateRiskScore reads it
FindingOf(severity) == Finding("finding", "Finding", severity, <<>>, NoContext, <<>>)

\* the finding lists of at most n findings, the empty list included
FindingLists(n) ==
    {[k \in 1..Len(ss) |-> FindingOf(ss[k])] :
        ss \in UNION {[1..k -> SeverityNames] : k \in 0..n}}

\* calculateRiskScore called on its own with a finding list (audit.ts:445)
InitScore ==
    /\ pc = "measured"
    /\ inputType = "solidity"
    /\ lines = <<"">>
    /\ vulnerabilities \in FindingLists(MaxFindings)
    /\ metrics = calculateMetrics(lines, "", vulnerabilities)
    /\ riskScore = -1
    /\ riskLevel = None
    /\ result = <<>>
    /\ error = None
    /\ returned = <<>>
    /\ chat \in ChatStart

\* getRiskLevel called on its own with a score (audit.ts:479)
InitLevel ==
    /\ pc = "scored"
    /\ inputType = "solidity"
    /\ lines = <<"">>
    /\ vulnerabilities = <<>>
    /\ metrics = calculateMetrics(lines, "", vulnerabilities)
    /\ riskScore \in 0..100
    /\ riskLevel = None
    /\ result = <<>>
    /\ error = None
    /\ returned = <<>>
    /\ chat \in ChatStart

\* the test of line 19 against a misspelt input type
IsAddressModeMisspelt(type) == type = "Address"

\* the test of line 19 inverted
IsAddressModeInverted(type) == type # "address"

\* audit.ts:19
IsAddressMode(type) == type = "address"

\* audit.ts:19-22: the promise rejects
Throw ==
    /\ pc = "called"
    /\ IsAddressMode(inputType)
    /\ error' = AddressError
    /\ pc' = "rejected"
    /\ UNCHANGED <<inputType, lines, vulnerabilities, metrics, riskScore, riskLevel, result, returned, chat>>

\* audit.ts:19: the test fails and control reaches line 25
DetectGuard == pc = "called" /\ ~IsAddressMode(inputType)

\* audit.ts:25
Detect ==
    /\ DetectGuard
    /\ vulnerabilities' = detectVulnerabilities(lines)
    /\ pc' = "detected"
    /\ UNCHANGED <<inputType, lines, metrics, riskScore, riskLevel, result, error, returned, chat>>

\* audit.ts:26
Measure ==
    /\ pc = "detected"
    /\ \E code \in {JoinLines(lines, 1)} :
          metrics' = calculateMetrics(lines, code, vulnerabilities)
    /\ pc' = "measured"
    /\ UNCHANGED <<inputType, lines, vulnerabilities, riskScore, riskLevel, result, error, returned, chat>>

\* audit.ts:27
Score ==
    /\ pc = "measured"
    /\ riskScore' = calculateRiskScore(vulnerabilities)
    /\ pc' = "scored"
    /\ UNCHANGED <<inputType, lines, vulnerabilities, metrics, riskLevel, result, error, returned, chat>>

\* audit.ts:28
Level ==
    /\ pc = "scored"
    /\ riskLevel' = getRiskLevel(riskScore)
    /\ pc' = "levelled"
    /\ UNCHANGED <<inputType, lines, vulnerabilities, metrics, riskScore, result, error, returned, chat>>

\* the caller of calculateRiskScore adds one critical finding to the list it
\* has the score of and calls again; riskScore keeps the score of the list
\* without that finding until the call returns
AddCritical ==
    /\ pc = "scored"
    /\ Len(vulnerabilities) < MaxFindings
    /\ vulnerabilities' = Append(vulnerabilities, FindingOf("critical"))
    /\ pc' = "measured"
    /\ UNCHANGED <<inputType, lines, metrics, riskScore, riskLevel, result, error, returned, chat>>

\* the caller of getRiskLevel takes a higher score and calls again; riskLevel
\* keeps the level of the lower score until the call returns
RaiseScore ==
    /\ pc = "levelled"
    /\ \E higher \in (riskScore + 1)..100 : riskScore' = higher
    /\ pc' = "scored"
    /\ UNCHANGED <<inputType, lines, vulnerabilities, metrics, riskLevel, result, error, returned, chat>>

\* audit.ts:30-38: the promise resolves
Return ==
    /\ pc = "levelled"
    /\ result' = <<[riskScore       |-> riskScore,
                    riskLevel       |-> riskLevel,
                    summary         |-> generateSummary(riskLevel, Len(vulnerabilities), metrics),
                    vulnerabilities |-> vulnerabilities,
                    metrics         |-> metrics]>>
    /\ pc' = "resolved"
    /\ UNCHANGED <<inputType, lines, vulnerabilities, metrics, riskScore, riskLevel, error, returned, chat>>

\* page.tsx:28-36: the page got the result and handleAuditSubmit is called
\* with the same request again; the new call starts with locals of its own
CallAgain ==
    /\ pc = "resolved"
    /\ Len(returned) < MaxRepeats
    /\ returned' = Append(returned, result[1])
    /\ pc' = "called"
    /\ vulnerabilities' = <<>>
    /\ metrics' = <<>>
    /\ riskScore' = -1
    /\ riskLevel' = None
    /\ result' = <<>>
    /\ UNCHANGED <<inputType, lines, error, chat>>

Next == Throw \/ Detect \/ Measure \/ Score \/ Level \/ Return

Spec == Init /\ [][Next]_vars

SpecFlow == InitFlow /\ [][Next]_vars

SpecCalls == InitCalls /\ [][Next]_vars

SpecAccess == InitAccess /\ [][Next]_vars

SpecOverflow == InitOverflow /\ [][Next]_vars

SpecParse == InitParse /\ [][Next]_vars

SpecHeader == InitHeader /\ [][Next]_vars

SpecOrder == InitOrder /\ [][Next]_vars

NextRepeat == Next \/ CallAgain

SpecRepeat == InitOrder /\ [][NextRepeat]_vars

SpecCount == InitCount /\ [][Next]_vars

NextScore == Score \/ AddCritical

SpecScore == InitScore /\ [][NextScore]_vars

\* calculateRiskScore and getRiskLevel applied to a finding list, as lines
\* 27-28 apply them
NextRisk == Score \/ Level

SpecRisk == InitScore /\ [][NextRisk]_vars

NextLevel == Level \/ RaiseScore

SpecLevel == InitLevel /\ [][NextLevel]_vars

-----------------------------------------------------------------------------
(* The copilot chat: handleSubmit of TamboChat (TamboChat.tsx:337-390),    *)
(* callOpenAiForCopilot (openai.ts:17-49) and the route POST /api/copilot  *)
(* (route.ts:13-89).  A call of handleSubmit runs to its await, the route  *)
(* answers, and the call goes on behind the await; other events of the     *)
(* page can come between.                                                  *)

\* what the user can have in the input field when the form is submitted
ChatInputs == {"", "  ", "Why is this contract risky?"}

\* the message of the seeded submit (TamboChat.tsx:324)
SeedMessage == "Explain the vulnerability in this contract and how to fix it."

UserMessages(c) == {k \in 1..Len(c.messages) : c.messages[k].role = "user"}

AssistantMessages(c) == {k \in 1..Len(c.messages) : c.messages[k].role = "assistant"}

\* s without its i-th element
Without(s, i) == SubSeq(s, 1, i - 1) \o SubSeq(s, i + 1, Len(s))

\* TamboChat.tsx:348-353: handleSubmit behind its two guards, up to the await
Accepted(c, userMessage, seedVuln) ==
    [c EXCEPT !.isLoading = TRUE,
              !.messages  = Append(@, [role |-> "user", content |-> userMessage]),
              !.calls     = Append(@, [phase |-> "sent", seedVuln |-> seedVuln])]

\* TamboChat.tsx:344-346: the guards of handleSubmit, with the auditResult
\* and the isLoading of the render the handler belongs to
PassesGuards(hasResult, userMessage, isLoading) ==
    /\ hasResult
    /\ userMessage # ""
    /\ ~isLoading

\* the form is submitted or a suggestion is clicked (TamboChat.tsx:428, 472):
\* handleSubmit of the current render
ChatSubmit ==
    /\ Cardinality(UserMessages(chat)) < MaxChat
    /\ \E input \in ChatInputs :
          /\ PassesGuards(pc = "resolved", Trim(input), chat.isLoading)
          /\ chat' = Accepted(chat, Trim(input), chat.currentSeedVuln)
    /\ UNCHANGED <<pc, inputType, lines, vulnerabilities, metrics, riskScore, riskLevel,
                   result, error, returned>>

\* "Explain in chat" gives the chat a seedVulnerability (TamboChat.tsx:320-335):
\* the effect keeps it and sets a timer with the handleSubmit of its render
SeedClick ==
    /\ pc = "resolved"
    /\ ~chat.currentSeedVuln
    /\ chat.timer = "none"
    /\ chat' = [chat EXCEPT !.currentSeedVuln = TRUE,
                            !.timer = IF chat.isLoading THEN "loading" ELSE "idle"]
    /\ UNCHANGED <<pc, inputType, lines, vulnerabilities, metrics, riskScore, riskLevel,
                   result, error, returned>>

\* the timer fires (TamboChat.tsx:327-333): handleSubmit of the render that
\* set it, whose isLoading is the one of that render
SeedTimer ==
    /\ chat.timer # "none"
    /\ Cardinality(UserMessages(chat)) < MaxChat
    /\ chat' = IF PassesGuards(pc = "resolved", SeedMessage, chat.timer = "loading")
               THEN [Accepted(chat, SeedMessage, TRUE) EXCEPT !.timer = "none"]
               ELSE [chat EXCEPT !.timer = "none"]
    /\ UNCHANGED <<pc, inputType, lines, vulnerabilities, metrics, riskScore, riskLevel,
                   result, error, returned>>

\* route.ts:14-23 and openai.ts:36-40: without OPENAI_API_KEY the route
\* answers 500 before any call to the upstream API, and the promise of
\* callOpenAiForCopilot rejects
RouteWithoutKey ==
    /\ ~chat.hasKey
    /\ \E i \in 1..Len(chat.calls) :
          /\ chat.calls[i].phase = "sent"
          /\ chat' = [chat EXCEPT !.calls[i].phase = "failed"]
    /\ UNCHANGED <<pc, inputType, lines, vulnerabilities, metrics, riskScore, riskLevel,
                   result, error, returned>>

\* route.ts:25-89 and openai.ts:36-44: with the key the route calls the
\* upstream API; it answers with a content (the promise resolves) or with an
\* error, no content or an exception (status 4xx/5xx: the promise rejects)
RouteWithKey ==
    /\ chat.hasKey
    /\ \E i \in 1..Len(chat.calls) :
          /\ chat.calls[i].phase = "sent"
          /\ \E outcome \in {"ok", "failed"} :
                chat' = [chat EXCEPT !.calls[i].phase = outcome,
                                     !.upstream = @ + 1]
    /\ UNCHANGED <<pc, inputType, lines, vulnerabilities, metrics, riskScore, riskLevel,
                   result, error, returned>>

\* TamboChat.tsx:384-389: the end of handleSubmit
Finished(c, i) ==
    [c EXCEPT !.currentSeedVuln = IF c.calls[i].seedVuln THEN FALSE ELSE @,
              !.isLoading = FALSE,
              !.calls = Without(@, i)]

\* TamboChat.tsx:364-367, 384-389: the promise resolved
ChatReply ==
    /\ \E i \in 1..Len(chat.calls) :
          /\ chat.calls[i].phase = "ok"
          /\ chat' = [Finished(chat, i) EXCEPT
                         !.messages = Append(@, [role |-> "assistant", content |-> "response"])]
    /\ UNCHANGED <<pc, inputType, lines, vulnerabilities, metrics, riskScore, riskLevel,
                   result, error, returned>>

\* the catch block without its setMessages
ChatFallbackSilent ==
    /\ \E i \in 1..Len(chat.calls) :
          /\ chat.calls[i].phase = "failed"
          /\ chat' = Finished(chat, i)
    /\ UNCHANGED <<pc, inputType, lines, vulnerabilities, metrics, riskScore, riskLevel,
                   result, error, returned>>

\* TamboChat.tsx:368-389: the promise rejected, the reply is generateResponse's
ChatFallback ==
    /\ \E i \in 1..Len(chat.calls) :
          /\ chat.calls[i].phase = "failed"
          /\ chat' = [Finished(chat, i) EXCEPT
                         !.messages = Append(@, [role |-> "assistant", content |-> "fallback"])]
    /\ UNCHANGED <<pc, inputType, lines, vulnerabilities, metrics, riskScore, riskLevel,
                   result, error, returned>>

\* the page with its chat: one-line texts, a server with or without the key
InitChat ==
    /\ pc = "called"
    /\ inputType \in InputTypes
    /\ lines \in Sources(OrderLines, 1)
    /\ vulnerabilities = <<>>
    /\ metrics = <<>>
    /\ riskScore = -1
    /\ riskLevel = None
    /\ result = <<>>
    /\ error = None
    /\ returned = <<>>
    /\ chat \in {ChatOf(hasKey) : hasKey \in BOOLEAN}

NextChat ==
    Next \/ ChatSubmit \/ SeedClick \/ SeedTimer \/ RouteWithoutKey \/ RouteWithKey
         \/ ChatReply \/ ChatFallback

\* the route handler answers every request it got, and a settled promise
\* runs the rest of handleSubmit
SpecChat ==
    /\ InitChat
    /\ [][NextChat]_vars
    /\ WF_vars(RouteWithoutKey)
    /\ WF_vars(RouteWithKey)
    /\ WF_vars(ChatReply)
    /\ WF_vars(ChatFallback)

-----------------------------------------------------------------------------
(* Properties.  Findings are told apart by title, as the code does.        *)

Resolved == pc = "resolved"

SourceMode == inputType = "solidity"

\* the AuditResult the promise resolved to
Report == result[1]

\* the findings of the list vs that carry the title
WithTitle(vs, title) == {k \in 1..Len(vs) : vs[k].title = title}

\* the title category of a finding
Category(v) ==
    CASE v.title = ReentrancyTitle -> "reentrancy"
      [] v.title = UncheckedTitle  -> "unchecked external call"
      [] v.title = OverflowTitle   -> "integer overflow"
      [] v.title = AccessTitle     -> "missing access control"
      [] v.title = PayableTitle    -> "missing access control"
      [] OTHER                     -> "informational"

Severities == {"low", "medium", "high", "critical"}

\* C1: in source mode the returned result holds at least one finding.
C1_NonEmptyFindings ==
    Resolved => Len(Report.vulnerabilities) >= 1

\* C1 witness: a source no detector flags was analysed, and the list holds
\* the informational finding alone.
C1_Witness ==
    /\ Resolved
    /\ Len(lines) > 1
    /\ Len(Report.vulnerabilities) = 1
    /\ Report.vulnerabilities[1].id = "info-1"

\* C2: no two findings of a report share title category and lineStart.
C2_NoDuplicateFindings ==
    Resolved =>
        \A i, j \in 1..Len(Report.vulnerabilities) :
            LET a == Report.vulnerabilities[i]
                b == Report.vulnerabilities[j]
            IN  (i < j /\ Category(a) = Category(b))
                    => /\ HasLineStart(a)
                       /\ HasLineStart(b)
                       /\ a.codeContext.lineStart # b.codeContext.lineStart

\* C2 witness: a report with two findings of one category (on different
\* lines) and two findings on one line (of different categories).
C2_Witness ==
    /\ Resolved
    /\ \E i, j \in 1..Len(Report.vulnerabilities) :
          /\ i < j
          /\ Category(Report.vulnerabilities[i]) = Category(Report.vulnerabilities[j])
    /\ \E i, j \in 1..Len(Report.vulnerabilities) :
          /\ i < j
          /\ Report.vulnerabilities[i].codeContext.lineStart
                = Report.vulnerabilities[j].codeContext.lineStart

\* the number of findings of the list vs with the severity, by a scan of its own
Tally(vs, severity) == Len(SelectSeq(vs, LAMBDA v : v.severity = severity))

\* C3: totalVulnerabilities is the length of the list, each count is the
\* number of findings of its severity, and the four counts add up to the total.
C3_MetricsConsistent ==
    Resolved =>
        LET m  == Report.metrics
            vs == Report.vulnerabilities
        IN  /\ m.totalVulnerabilities = Len(vs)
            /\ m.criticalCount = Tally(vs, "critical")
            /\ m.highCount = Tally(vs, "high")
            /\ m.mediumCount = Tally(vs, "medium")
            /\ m.lowCount = Tally(vs, "low")
            /\ m.criticalCount + m.highCount + m.mediumCount + m.lowCount
                  = m.totalVulnerabilities

\* C3 witness: a report with findings of three severities.
C3_Witness ==
    /\ Resolved
    /\ Report.metrics.highCount >= 1
    /\ Report.metrics.mediumCount >= 1
    /\ Report.metrics.lowCount >= 1

\* C4: a request of input type address is rejected with "Address lookup not
\* yet implemented" whatever its code: no detector runs, nothing is returned.
C4_AddressRejected ==
    inputType = "address" =>
        /\ pc \in {"called", "rejected"}
        /\ pc = "called" => ENABLED Throw
        /\ pc = "rejected" => error = "Address lookup not yet implemented"
        /\ vulnerabilities = <<>>
        /\ result = <<>>

\* C4 witness: a request of type address whose code is a closed function
\* has been rejected.
C4_Witness ==
    /\ inputType = "address"
    /\ pc = "rejected"
    /\ error # None
    /\ parseFunctions(lines) # <<>>

\* C5: the empty string in source mode gives an error and no result.
C5_EmptySourceRejected ==
    (SourceMode /\ lines = <<"">> /\ pc \in {"resolved", "rejected"})
        => (pc = "rejected" /\ error # None /\ result = <<>>)

\* C5 witness: the analysis of the empty string has returned.
C5_Witness == SourceMode /\ lines = <<"">> /\ Resolved /\ Len(result) = 1

\* some line opens a function record that no later line closes
HasUnclosedFunction ==
    \E i \in 1..Len(lines) :
        /\ parseScan[lines[i]].functionMatch.matched
        /\ \A k \in 1..Len(parseFunctions(lines)) : parseFunctions(lines)[k].lineEnd < i

\* C6: in source mode with a non-empty text no error is raised, whatever the
\* text: the call is never rejected, it goes on to the detectors, each step
\* leaves a defined value behind and the last one returns an AuditResult.
C6_NoErrorInSourceMode ==
    (SourceMode /\ lines # <<"">>) =>
        /\ error = None
        /\ pc \in {"called", "detected", "measured", "scored", "levelled", "resolved"}
        /\ pc = "called" => DetectGuard
        /\ pc # "called" => Len(vulnerabilities) >= 1
        /\ pc \in {"measured", "scored", "levelled", "resolved"}
              => metrics.functionCount \in Nat
        /\ pc \in {"scored", "levelled", "resolved"} => riskScore \in 0..100
        /\ pc \in {"levelled", "resolved"} => riskLevel \in Severities
        /\ Resolved => (Len(result) = 1 /\ Len(Report.vulnerabilities) >= 1)

\* C6 witness: a text that starts with a closing brace and holds a function
\* that never closes has been analysed.
C6_Witness ==
    /\ SourceMode
    /\ Resolved
    /\ lines[1] = "}"
    /\ HasUnclosedFunction
    /\ Len(result) = 1

\* the functions the text is segmented into
Segmented == parseFunctions(lines)

\* the lines of the text from the declaration of func to its closing line
LinesOf(func) == func.lineStart..func.lineEnd

\* what the reentrancy claims ask of a line, tabulated for the lines of the
\* texts: a non-comment line with an external-call construct, a non-comment
\* line classified as a state update, a line with a guard marker
flowFacts ==
    [l \in AllLines |->
        [call     |-> ~IsCommentLine(Trim(l)) /\ IsExternalCall(Trim(l)),
         update   |-> ~IsCommentLine(Trim(l)) /\ IsStateUpdate(Trim(l)),
         modifier |-> Includes(l, "nonReentrant"),
         contract |-> Includes(l, "ReentrancyGuard")]]

IsCallAt(i) == flowFacts[lines[i]].call

IsUpdateAt(i) == flowFacts[lines[i]].update

\* some call line of func comes strictly before some update line of func
CallBeforeUpdate(func) ==
    \E i, j \in LinesOf(func) : i < j /\ IsCallAt(i) /\ IsUpdateAt(j)

\* the reentrancy findings of the report that start on a line of func
ReentrancyFindings(func) ==
    {k \in WithTitle(Report.vulnerabilities, ReentrancyTitle) :
        Report.vulnerabilities[k].codeContext.lineStart \in LinesOf(func)}

\* C7: a segmented function has a reentrancy finding if and only if one of
\* its non-comment external-call lines comes strictly before one of its
\* non-comment state-update lines.
C7_ReentrancyIffCallBeforeUpdate ==
    Resolved =>
        \A f \in 1..Len(Segmented) :
            (ReentrancyFindings(Segmented[f]) # {}) <=> CallBeforeUpdate(Segmented[f])

\* C7 witness: the report of a function with a call before an update has
\* the finding, and the call line of that function is itself an update line
\* (the pair on one line is not what the finding rests on).
C7_Witness ==
    /\ Resolved
    /\ \E f \in 1..Len(Segmented) :
          /\ CallBeforeUpdate(Segmented[f])
          /\ ReentrancyFindings(Segmented[f]) # {}
          /\ \E i \in LinesOf(Segmented[f]) : IsCallAt(i) /\ IsUpdateAt(i)

\* C8: a segmented function gets at most one reentrancy finding, exactly one
\* when a call comes before an update, and that finding starts on the line
\* of an external call.
C8_OneFindingPerFunction ==
    Resolved =>
        \A f \in 1..Len(Segmented) :
            /\ Cardinality(ReentrancyFindings(Segmented[f])) <= 1
            /\ CallBeforeUpdate(Segmented[f])
                  => /\ Cardinality(ReentrancyFindings(Segmented[f])) = 1
                     /\ \A k \in ReentrancyFindings(Segmented[f]) :
                           IsCallAt(Report.vulnerabilities[k].codeContext.lineStart)

\* some line of the text holds a guard marker
MarkerInSource ==
    \E i \in 1..Len(lines) : flowFacts[lines[i]].modifier \/ flowFacts[lines[i]].contract

\* the function holds the modifier name, or the text holds the contract name
GuardOf(func) ==
    \/ \E i \in LinesOf(func) : flowFacts[lines[i]].modifier
    \/ \E i \in 1..Len(lines) : flowFacts[lines[i]].contract

\* C9 as claimed: a reentrancy finding is medium when a guard marker appears
\* anywhere in the text and high when none does.
C9_MediumIffMarkerAnywhere ==
    Resolved =>
        \A k \in WithTitle(Report.vulnerabilities, ReentrancyTitle) :
            Report.vulnerabilities[k].severity = (IF MarkerInSource THEN "medium" ELSE "high")

\* C9 as amended: a reentrancy finding of a function is medium when the
\* lines of that function hold nonReentrant or some line of the text holds
\* ReentrancyGuard, and high otherwise; a guarded function with a call
\* before an update is still reported.
C9_SeverityFollowsGuard ==
    Resolved =>
        \A f \in 1..Len(Segmented) :
            /\ \A k \in ReentrancyFindings(Segmented[f]) :
                  Report.vulnerabilities[k].severity
                      = (IF GuardOf(Segmented[f]) THEN "medium" ELSE "high")
            /\ (GuardOf(Segmented[f]) /\ CallBeforeUpdate(Segmented[f]))
                  => ReentrancyFindings(Segmented[f]) # {}

\* C9 witness: a text that holds nonReentrant outside the function has a
\* finding of severity high for it.
C9_Witness ==
    /\ Resolved
    /\ MarkerInSource
    /\ \E k \in WithTitle(Report.vulnerabilities, ReentrancyTitle) :
          Report.vulnerabilities[k].severity = "high"

\* the report holds an Unchecked External Call finding of severity high that
\* starts and ends on line n
UncheckedAt(n) ==
    \E k \in WithTitle(Report.vulnerabilities, UncheckedTitle) :
        /\ Report.vulnerabilities[k].severity = "high"
        /\ Report.vulnerabilities[k].codeContext = Context(n, n)

\* the up to five lines right after line n
FiveAfter(n) == {k \in 1..Len(lines) : n < k /\ k <= n + 5}

\* what the unchecked-call claim asks of a line, tabulated for the lines of
\* the texts: the constructs it holds and the checks it holds
callFacts ==
    [l \in AllLines |->
        [anyConstruct |-> IsExternalCall(Trim(l)),
         callMatch    |-> CallMatch(Trim(l)),
         sameLine     |-> HasReturnCheck(Trim(l)),
         later        |-> IsLaterCheck(l)]]

\* neither line n nor any of the five lines after it holds a check of the call
NoCheckNear(n) ==
    /\ ~callFacts[lines[n]].sameLine
    /\ \A k \in FiveAfter(n) : ~callFacts[lines[k]].later

\* C10 as claimed: a line with a call, send, transfer, delegatecall or
\* staticcall construct has a finding if and only if no check is near.
C10_AllCallConstructs ==
    Resolved =>
        \A n \in 1..Len(lines) :
            callFacts[lines[n]].anyConstruct => (UncheckedAt(n) <=> NoCheckNear(n))

\* C10 as amended: the constructs are .call{ .call( .send( and .transfer(
\* alone; such a line has a finding if and only if it holds none of
\* require, if, bool success, (bool, and none of the five lines after it
\* holds require( or if( followed by success; no other line has a finding.
C10_UncheckedCallFindings ==
    Resolved =>
        \A n \in 1..Len(lines) :
            /\ callFacts[lines[n]].callMatch => (UncheckedAt(n) <=> NoCheckNear(n))
            /\ ~callFacts[lines[n]].callMatch => ~UncheckedAt(n)

\* C10 witness: a call line with a finding whose only check is on the sixth
\* line after it, in a text that also holds a delegatecall line.
C10_Witness ==
    /\ Resolved
    /\ \E n \in 1..Len(lines) :
          /\ UncheckedAt(n)
          /\ n + 6 <= Len(lines)
          /\ callFacts[lines[n + 6]].later
    /\ \E n \in 1..Len(lines) :
          callFacts[lines[n]].anyConstruct /\ ~callFacts[lines[n]].callMatch

\* what the access-control claim asks of a line, tabulated for the lines of
\* the texts
accessFacts ==
    [l \in AllLines |->
        [idiom    |-> \/ Includes(l, "onlyOwner")
                      \/ Includes(l, "onlyRole")
                      \/ Includes(l, "require(msg.sender")
                      \/ Includes(l, "require(_msgSender()"),
         assigns  |-> Includes(l, "="),
         memory   |-> Includes(l, "memory"),
         moves    |-> Includes(l, "transfer") \/ Includes(l, "mint") \/ Includes(l, "burn")]]

\* some line of func has the property
SomeLineOf(func, fact) == \E i \in LinesOf(func) : accessFacts[lines[i]][fact]

\* func is payable or appears state-changing, and holds no access-control idiom
Unprotected(func) ==
    /\ ~SomeLineOf(func, "idiom")
    /\ \/ func.payable
       \/ SomeLineOf(func, "assigns") /\ ~SomeLineOf(func, "memory")
       \/ SomeLineOf(func, "moves")

\* the missing-access-control findings of the report at the start line of func
AccessFindings(func) ==
    {k \in WithTitle(Report.vulnerabilities, AccessTitle)
              \cup WithTitle(Report.vulnerabilities, PayableTitle) :
        Report.vulnerabilities[k].codeContext.lineStart = func.lineStart}

\* func has exactly one access finding, high if it is payable and medium if not
OneAccessFinding(func) ==
    /\ Cardinality(AccessFindings(func)) = 1
    /\ \A k \in AccessFindings(func) :
          Report.vulnerabilities[k].severity = (IF func.payable THEN "high" ELSE "medium")

\* C11 as claimed: an unprotected public or external function has exactly one
\* access finding at its start line, high if payable and medium if not;
\* every other function has none.
C11_PublicOrExternalFlagged ==
    Resolved =>
        \A f \in 1..Len(Segmented) :
            IF Segmented[f].visibility \in {"public", "external"} /\ Unprotected(Segmented[f])
            THEN OneAccessFinding(Segmented[f])
            ELSE AccessFindings(Segmented[f]) = {}

\* C11 as amended: only the functions of visibility public are examined; an
\* unprotected one has exactly one access finding at its start line, high if
\* payable and medium if not; every other function, the external ones
\* included, has none.
C11_PublicFlagged ==
    Resolved =>
        \A f \in 1..Len(Segmented) :
            IF Segmented[f].visibility = "public" /\ Unprotected(Segmented[f])
            THEN OneAccessFinding(Segmented[f])
            ELSE AccessFindings(Segmented[f]) = {}

\* C11 witness: the report of a text with an unprotected external payable
\* function (no finding) and a flagged public function.
C11_Witness ==
    /\ Resolved
    /\ \E f, g \in 1..Len(Segmented) :
          /\ Segmented[f].visibility = "external"
          /\ Unprotected(Segmented[f])
          /\ AccessFindings(Segmented[f]) = {}
          /\ Segmented[g].visibility = "public"
          /\ AccessFindings(Segmented[g]) # {}

\* the value of a decimal digit, -1 for any other character
DigitValue(c) ==
    CASE c = "0" -> 0 [] c = "1" -> 1 [] c = "2" -> 2 [] c = "3" -> 3 [] c = "4" -> 4
      [] c = "5" -> 5 [] c = "6" -> 6 [] c = "7" -> 7 [] c = "8" -> 8 [] c = "9" -> 9
      [] OTHER -> -1

\* the number written in decimal digits at index i of s, -1 if no digit is there
RECURSIVE NumberAt(_, _, _)
NumberAt(s, i, acc) ==
    IF i <= Len(s) /\ DigitValue(CharAt(s, i)) >= 0
    THEN NumberAt(s, i + 1, (IF acc < 0 THEN 0 ELSE 10 * acc) + DigitValue(CharAt(s, i)))
    ELSE acc

\* the index after the range operators and blanks that start at index i
RECURSIVE SkipOperator(_, _)
SkipOperator(s, i) ==
    IF i <= Len(s) /\ CharAt(s, i) \in {"^", ">", "=", "~", " "}
    THEN SkipOperator(s, i + 1)
    ELSE i

\* the version <<major, minor>> a pragma line declares, <<-1, -1>> for a line
\* that is no version pragma
DeclaredVersion(l) ==
    IF StartsWith(Trim(l), "pragma solidity")
    THEN LET t     == Trim(l)
             major == SkipOperator(t, Len("pragma solidity") + 1)
             dot   == FirstChar(t, major, ".")
         IN  <<NumberAt(t, major, -1), NumberAt(t, dot + 1, -1)>>
    ELSE <<-1, -1>>

\* what the overflow claims ask of a line, tabulated for the lines of the texts
overflowFacts ==
    [l \in AllLines |->
        [version    |-> DeclaredVersion(l),
         comment    |-> IsCommentLine(Trim(l)),
         directive  |-> StartsWith(Trim(l), "pragma") \/ StartsWith(Trim(l), "import"),
         arithmetic |-> \/ Includes(l, "++")
                        \/ Includes(l, "+=")
                        \/ Includes(l, "-=")
                        \/ Includes(l, "*") /\ Includes(l, "=")]]

\* some pragma of the text declares a version at or above 0.8.0
DeclaresChecked ==
    \E i \in 1..Len(lines) :
        LET v == overflowFacts[lines[i]].version
        IN  v[1] > 0 \/ (v[1] = 0 /\ v[2] >= 8)

\* some pragma of the text declares a version below 0.8.0
DeclaresUnchecked ==
    \E i \in 1..Len(lines) :
        LET v == overflowFacts[lines[i]].version
        IN  v[1] = 0 /\ v[2] >= 0 /\ v[2] < 8

\* the overflow findings of the report
OverflowFindings == WithTitle(Report.vulnerabilities, OverflowTitle)

\* some line of the text is a version pragma
HasPragma == \E i \in 1..Len(lines) : overflowFacts[lines[i]].version[1] >= 0

\* C12: no overflow finding when the pragma declares 0.8.0 or above, in
\* whatever form it is written; for a text with a pragma, a finding only
\* when the declared version is below 0.8.0.
C12_NoOverflowFrom08 ==
    Resolved =>
        /\ DeclaresChecked => OverflowFindings = {}
        /\ (HasPragma /\ OverflowFindings # {}) => DeclaresUnchecked

\* C12 witness: the report of a text whose only pragma declares the exact
\* version 0.8.20 has an overflow finding.
C12_Witness ==
    /\ Resolved
    /\ DeclaresChecked
    /\ ~DeclaresUnchecked
    /\ OverflowFindings # {}

\* the lines with arithmetic that are no comment, pragma or import lines
ArithmeticLines ==
    {i \in 1..Len(lines) :
        /\ overflowFacts[lines[i]].arithmetic
        /\ ~overflowFacts[lines[i]].comment
        /\ ~overflowFacts[lines[i]].directive}

\* C13: when the overflow detector runs there is at most one overflow
\* finding; when some line outside comments, pragmas and imports holds
\* arithmetic there is exactly one, of severity low, at the first such line;
\* no finding is on a comment line.
C13_OneOverflowAtFirstLine ==
    (Resolved /\ ~HasSolidity08Plus(lines)) =>
        /\ Cardinality(OverflowFindings) <= 1
        /\ ArithmeticLines # {} =>
              /\ Cardinality(OverflowFindings) = 1
              /\ \A k \in OverflowFindings :
                    /\ Report.vulnerabilities[k].severity = "low"
                    /\ Report.vulnerabilities[k].codeContext.lineStart \in ArithmeticLines
                    /\ \A i \in ArithmeticLines :
                          Report.vulnerabilities[k].codeContext.lineStart <= i
        /\ \A k \in OverflowFindings :
              ~overflowFacts[lines[Report.vulnerabilities[k].codeContext.lineStart]].comment

\* C13 witness: the overflow finding of a report is on a block-comment line.
C13_Witness ==
    /\ Resolved
    /\ \E k \in OverflowFindings :
          overflowFacts[lines[Report.vulnerabilities[k].codeContext.lineStart]].comment

\* the findings of the report that the fallback pushed
InfoFindings == {k \in 1..Len(Report.vulnerabilities) : Report.vulnerabilities[k].id = "info-1"}

\* the findings of the report that one of the four detectors pushed
DetectorFindings ==
    {k \in 1..Len(Report.vulnerabilities) :
        Report.vulnerabilities[k].title
            \in {ReentrancyTitle, UncheckedTitle, OverflowTitle, AccessTitle, PayableTitle}}

\* C14: the informational finding (info-1, low, empty codeContext) is in the
\* report if and only if the four detectors emitted nothing, and then it is
\* the only finding.
C14_FallbackIffNothingFound ==
    Resolved =>
        /\ (InfoFindings # {}) <=> (DetectorFindings = {})
        /\ \A k \in InfoFindings :
              /\ Len(Report.vulnerabilities) = 1
              /\ Report.vulnerabilities[k].severity = "low"
              /\ Report.vulnerabilities[k].title = InfoTitle
              /\ DOMAIN Report.vulnerabilities[k].codeContext = {}

\* C14 witness: a report with findings of two detectors and without the
\* informational finding.
C14_Witness ==
    /\ Resolved
    /\ InfoFindings = {}
    /\ \E i, j \in DetectorFindings :
          Report.vulnerabilities[i].title # Report.vulnerabilities[j].title

\* C15: the score of a non-empty list is min(100, 30 critical + 20 high +
\* 10 medium + 5 low), the score of the empty list is 10, and every score is
\* in 0..100.
C15_ScoreFormula ==
    pc = "scored" =>
        /\ riskScore \in 0..100
        /\ riskScore =
              IF vulnerabilities = <<>> THEN 10
              ELSE LET sum == 30 * Tally(vulnerabilities, "critical")
                              + 20 * Tally(vulnerabilities, "high")
                              + 10 * Tally(vulnerabilities, "medium")
                              + 5 * Tally(vulnerabilities, "low")
                   IN  IF sum > 100 THEN 100 ELSE sum

\* C15 witness: the score of a mixed list whose weights add up to 115 has
\* been computed.
C15_Witness ==
    /\ pc = "scored"
    /\ riskScore = 100
    /\ Tally(vulnerabilities, "critical") = 3
    /\ Tally(vulnerabilities, "high") = 1
    /\ Tally(vulnerabilities, "low") = 1

\* C16: the score of a list with one more critical finding appended is not
\* below the score of the list, the empty list included.
C16_CriticalNeverLowers ==
    [][(pc = "measured" /\ riskScore >= 0 /\ pc' = "scored") => riskScore' >= riskScore]_vars

\* C16 witness: the empty list was scored, a critical finding has been
\* appended and the list is about to be scored again.
C16_Witness ==
    /\ pc = "measured"
    /\ riskScore = 10
    /\ Len(vulnerabilities) = 1

\* the place of a level in the order low < medium < high < critical
Rank(level) ==
    CASE level = "low" -> 1 [] level = "medium" -> 2 [] level = "high" -> 3
      [] level = "critical" -> 4 [] OTHER -> 0

\* C17: the level of every score in 0..100 is one of low, medium, high,
\* critical, and the level of a higher score is not below the level of a
\* lower one.
C17_LevelMonotonic ==
    [][(pc = "scored" /\ pc' = "levelled") =>
          /\ riskLevel' \in Severities
          /\ riskLevel # None => Rank(riskLevel') >= Rank(riskLevel)]_vars

\* C17 witness: the level of a score was low, and the level of a score of 65
\* or more is about to be computed.
C17_Witness ==
    /\ pc = "scored"
    /\ riskLevel = "low"
    /\ riskScore >= 65

\* what the segmentation claims ask of a line, tabulated for the lines of the
\* texts: it matches the declaration header, the number of its '{' minus
\* the number of its '}', it holds a '}'
parseFacts ==
    [l \in AllLines |->
        [header  |-> FunctionMatch(Trim(l)).matched,
         delta   |-> CountChar(l, "{") - CountChar(l, "}"),
         closing |-> Includes(l, "}")]]

\* the number of '{' minus the number of '}' from the beginning of line i to
\* the end of line j
RECURSIVE Depth(_, _)
Depth(i, j) == IF j < i THEN 0 ELSE Depth(i, j - 1) + parseFacts[lines[j]].delta

\* a count started at line i is back at zero at the end of line j, and line j
\* holds a '}'
ClosesAt(i, j) == Depth(i, j) = 0 /\ parseFacts[lines[j]].closing

\* the lines at or after line i at which a declaration of line i closes
ClosingLines(i) == {j \in i..Len(lines) : ClosesAt(i, j)}

\* C18: the lineEnd of every record is the first line at or after its
\* lineStart where the brace count started at lineStart is zero and a '}'
\* stands; the body is the lines lineStart..lineEnd of the source.
C18_RecordEndsAtDepthZero ==
    pc # "called" =>
        \A k \in 1..Len(Segmented) :
            LET r == Segmented[k]
            IN  /\ r.lineStart <= r.lineEnd
                /\ r.lineEnd \in ClosingLines(r.lineStart)
                /\ \A j \in ClosingLines(r.lineStart) : r.lineEnd <= j
                /\ r.body = SubSeq(lines, r.lineStart, r.lineEnd)
                /\ Len(r.body) = r.lineEnd - r.lineStart + 1

\* C18 witness: a record with a line inside it that holds a '}' at a depth
\* above zero and did not end it.
C18_Witness ==
    /\ pc # "called"
    /\ inputType = "solidity"
    /\ \E k \in 1..Len(Segmented) :
          \E j \in Segmented[k].lineStart..(Segmented[k].lineEnd - 1) :
              parseFacts[lines[j]].closing /\ Depth(Segmented[k].lineStart, j) > 0

\* C19: a declaration that no line closes before the end of the source is
\* not among the records.
C19_UnclosedNotEmitted ==
    pc # "called" =>
        \A i \in 1..Len(lines) :
            (parseFacts[lines[i]].header /\ ClosingLines(i) = {})
                => \A k \in 1..Len(Segmented) : Segmented[k].lineStart # i

\* C19 witness: a text with a record and, after it, a declaration that
\* never closes.
C19_Witness ==
    /\ pc # "called"
    /\ inputType = "solidity"
    /\ Len(Segmented) >= 1
    /\ \E i \in 1..Len(lines) :
          /\ parseFacts[lines[i]].header
          /\ ClosingLines(i) = {}
          /\ Segmented[Len(Segmented)].lineEnd < i

\* the line ranges of the declarations from line `from` on, taken one after
\* the other: the first header line, the first line that closes it, and on
\* from the line after that; a header that never closes ends the list
RECURSIVE RangesFrom(_)
RangesFrom(from) ==
    LET headers == {i \in from..Len(lines) : parseFacts[lines[i]].header}
    IN  IF headers = {} THEN <<>>
        ELSE LET start == CHOOSE i \in headers : \A j \in headers : i <= j
             IN  IF ClosingLines(start) = {} THEN <<>>
                 ELSE LET end == CHOOSE i \in ClosingLines(start) :
                                     \A j \in ClosingLines(start) : i <= j
                      IN  <<<<start, end>>>> \o RangesFrom(end + 1)

\* C20: a header line inside an open record opens no record: the records
\* are the declarations taken one after the other, in source order, each
\* with lineStart <= lineEnd and ending before the next one starts.
C20_RecordsDoNotOverlap ==
    pc # "called" =>
        /\ [k \in 1..Len(Segmented) |-> <<Segmented[k].lineStart, Segmented[k].lineEnd>>]
              = RangesFrom(1)
        /\ \A k \in 1..Len(Segmented) :
              /\ Segmented[k].lineStart <= Segmented[k].lineEnd
              /\ k < Len(Segmented) => Segmented[k].lineEnd < Segmented[k + 1].lineStart
              /\ \A j \in (Segmented[k].lineStart + 1)..Segmented[k].lineEnd :
                    \A m \in 1..Len(Segmented) : Segmented[m].lineStart # j

\* C20 witness: a text with two records, the first with a header line inside.
C20_Witness ==
    /\ pc # "called"
    /\ inputType = "solidity"
    /\ Len(Segmented) >= 2
    /\ \E j \in (Segmented[1].lineStart + 1)..Segmented[1].lineEnd :
          parseFacts[lines[j]].header

\* the maximal runs of word characters of s, as strings
WordsOf(s) ==
    {SubSeq(s, i, j) : i \in 1..Len(s), j \in 1..Len(s)} \cap
    {SubSeq(s, i, j) : <<i, j>> \in
        {p \in (1..Len(s)) \X (1..Len(s)) :
            /\ p[1] <= p[2]
            /\ \A k \in p[1]..p[2] : IsWord(CharAt(s, k))
            /\ (p[1] = 1 \/ ~IsWord(CharAt(s, p[1] - 1)))
            /\ (p[2] = Len(s) \/ ~IsWord(CharAt(s, p[2] + 1)))}}

\* the modifiers of a declaration line: its words between the parameter
\* list and the '{' that opens the block
ModifiersOf(l) ==
    LET close == FirstChar(l, 1, ")")
        open  == FirstChar(l, close + 1, "{")
    IN  IF close > Len(l) THEN {} ELSE WordsOf(SubSeq(l, close + 1, open - 1))

VisibilityKeywords == {"public", "external", "internal", "private"}

\* what the header claims ask of a line, tabulated for the lines of the
\* texts: the payable qualifier is among its modifiers, the visibility
\* keywords among its modifiers
headerFacts ==
    [l \in AllLines |->
        [payable    |-> "payable" \in ModifiersOf(l),
         visibility |-> ModifiersOf(l) \cap VisibilityKeywords]]

\* the declaration line of a record
HeaderOf(func) == lines[func.lineStart]

\* C21: the payable of every record is true exactly when the payable
\* qualifier stands among the modifiers of its declaration header, in
\* whatever place.
C21_PayableIffQualifier ==
    pc # "called" =>
        \A k \in 1..Len(Segmented) :
            Segmented[k].payable <=> headerFacts[HeaderOf(Segmented[k])].payable

\* C21 witness: a record whose header holds the payable qualifier behind
\* another modifier and whose payable is false.
C21_Witness ==
    /\ pc # "called"
    /\ inputType = "solidity"
    /\ \E k \in 1..Len(Segmented) :
          /\ headerFacts[HeaderOf(Segmented[k])].payable
          /\ ~Segmented[k].payable

\* C22: the visibility of every record is the visibility keyword of its
\* declaration header when it has one, in whatever place, and public when
\* it has none.
C22_VisibilityAsWritten ==
    pc # "called" =>
        \A k \in 1..Len(Segmented) :
            LET written == headerFacts[HeaderOf(Segmented[k])].visibility
            IN  /\ written # {} => Segmented[k].visibility \in written
                /\ Segmented[k].visibility = "public" => written \subseteq {"public"}

\* C22 witness: a record whose header says external behind payable and
\* whose visibility is public.
C22_Witness ==
    /\ pc # "called"
    /\ inputType = "solidity"
    /\ \E k \in 1..Len(Segmented) :
          /\ headerFacts[HeaderOf(Segmented[k])].visibility = {"external"}
          /\ Segmented[k].visibility = "public"

DetectorNames == {"reentrancy", "external-call", "overflow", "access"}

\* the detector of that name run on the text with the findings so far
RunDetector(name, vulns) ==
    CASE name = "reentrancy"    -> DetectReentrancy(vulns, lines, Segmented)
      [] name = "external-call" -> DetectUncheckedCalls(vulns, lines)
      [] name = "overflow"      -> DetectOverflow(vulns, lines)
      [] name = "access"        -> DetectAccessControl(vulns, Segmented)

\* the orders the four detectors can run in
DetectorOrders ==
    {o \in [1..4 -> DetectorNames] : \A i, j \in 1..4 : i # j => o[i] # o[j]}

\* a finding without its id
Anonymous(v) ==
    [title |-> v.title, severity |-> v.severity, description |-> v.description,
     codeContext |-> v.codeContext, suggestedFix |-> v.suggestedFix]

\* the collection of the findings of a list without their ids: how many
\* times each occurs
Collected(vs) ==
    [a \in {Anonymous(vs[k]) : k \in 1..Len(vs)} |->
        Cardinality({k \in 1..Len(vs) : Anonymous(vs[k]) = a})]

\* what each detector finds when it runs first
FoundAlone == [d \in DetectorNames |-> RunDetector(d, <<>>)]

\* a detector that met the list before and left the list after kept what it
\* met and appended what it finds alone, up to id
AppendsItsOwn(before, after, alone) ==
    /\ Len(before) <= Len(after)
    /\ before = SubSeq(after, 1, Len(before))
    /\ Collected(SubSeq(after, Len(before) + 1, Len(after))) = Collected(alone)

\* the detectors of the order o from the n-th on, run on the list before:
\* each appends its own, and after the fallback the findings are those of
\* the code's order
RECURSIVE RunsAlike(_, _, _, _), StepAlike(_, _, _, _, _)
RunsAlike(o, n, before, alone) ==
    IF n > 4 THEN Collected(Fallback(before)) = Collected(vulnerabilities)
    ELSE StepAlike(o, n, before, RunDetector(o[n], before), alone)

StepAlike(o, n, before, after, alone) ==
    /\ AppendsItsOwn(before, after, alone[o[n]])
    /\ RunsAlike(o, n + 1, after, alone)

\* C23: in whatever order the four detectors run, with the fallback last,
\* the findings are those of the code's order up to list order and id, and
\* every detector appends what it appends when it runs first.
C23_OrderIndependent ==
    (pc = "detected" /\ SourceMode) =>
        \A o \in DetectorOrders : RunsAlike(o, 1, <<>>, FoundAlone)

\* C23 witness: a text on which two detectors report the same line and a
\* third reports too.
C23_Witness ==
    /\ pc = "detected"
    /\ SourceMode
    /\ \E i, j, k \in 1..Len(vulnerabilities) :
          /\ Category(vulnerabilities[i]) # Category(vulnerabilities[j])
          /\ Category(vulnerabilities[k]) \notin
                {Category(vulnerabilities[i]), Category(vulnerabilities[j])}
          /\ HasLineStart(vulnerabilities[i])
          /\ HasLineStart(vulnerabilities[j])
          /\ vulnerabilities[i].codeContext.lineStart = vulnerabilities[j].codeContext.lineStart

\* the prefix of the ids of the detector that gives the title
IdPrefix(v) ==
    CASE v.title = ReentrancyTitle -> "reentrancy-flow"
      [] v.title = UncheckedTitle  -> "external-call"
      [] v.title = OverflowTitle   -> "overflow"
      [] v.title = AccessTitle     -> "access"
      [] v.title = PayableTitle    -> "access"
      [] OTHER                     -> "info"

\* the decimal numeral of a position of the list
RECURSIVE Numeral(_)
Numeral(k) ==
    CASE k = 0 -> "0" [] k = 1 -> "1" [] k = 2 -> "2" [] k = 3 -> "3" [] k = 4 -> "4"
      [] k = 5 -> "5" [] k = 6 -> "6" [] k = 7 -> "7" [] k = 8 -> "8" [] k = 9 -> "9"
      [] OTHER -> Numeral(k \div 10) \o Numeral(k % 10)

\* C24: the ids of a report are pairwise distinct: the id of the finding at
\* position k is its detector's prefix, a hyphen and k; the fallback finding
\* is info-1 and stands alone.
C24_IdIsPrefixAndPosition ==
    Resolved =>
        /\ \A k \in 1..Len(Report.vulnerabilities) :
              /\ Report.vulnerabilities[k].id
                    = IdPrefix(Report.vulnerabilities[k]) \o "-" \o Numeral(k)
              /\ Report.vulnerabilities[k].title = InfoTitle
                    => Len(Report.vulnerabilities) = 1
        /\ \A i, j \in 1..Len(Report.vulnerabilities) :
              i # j => Report.vulnerabilities[i].id # Report.vulnerabilities[j].id

\* C24 witness: a report with two findings of one detector and, between
\* or behind them, a finding of another.
C24_Witness ==
    /\ Resolved
    /\ \E i, j, k \in 1..Len(Report.vulnerabilities) :
          /\ i < j
          /\ IdPrefix(Report.vulnerabilities[i]) = IdPrefix(Report.vulnerabilities[j])
          /\ i < k
          /\ IdPrefix(Report.vulnerabilities[k]) # IdPrefix(Report.vulnerabilities[i])

Text == JoinLines(lines, 1)

\* the lines of the text that hold a character other than white space
WrittenLines == {i \in 1..Len(lines) : \E k \in 1..Len(lines[i]) : ~IsSpace(CharAt(lines[i], k))}

\* at index i of the text stands the head of a declaration: the keyword
\* function, white space and the first character of a name
IsHead(text, i) ==
    /\ MatchAt(text, i, "function")
    /\ SkipSpace(text, i + 8) > i + 8
    /\ SkipSpace(text, i + 8) <= Len(text)
    /\ IsWord(CharAt(text, SkipSpace(text, i + 8)))

\* the number of heads among the indices, taken from the left, each with
\* its name: a keyword that is the name of the head before it is not a head
RECURSIVE HeadsFromLeft(_, _)
HeadsFromLeft(text, indices) ==
    IF indices = {} THEN 0
    ELSE LET first == CHOOSE i \in indices : \A j \in indices : i <= j
         IN  1 + HeadsFromLeft(text,
                     {i \in indices : i >= SkipWord(text, SkipSpace(text, first + 8))})

\* the heads of declarations in the text
HeadCount(text) == HeadsFromLeft(text, {i \in 1..Len(text) : IsHead(text, i)})

\* the header lines of the text that did not become a record: the block
\* never closes, or the line stands inside an open record
LostHeaders ==
    {i \in 1..Len(lines) :
        /\ parseFacts[lines[i]].header
        /\ \A k \in 1..Len(Segmented) : Segmented[k].lineStart # i}

\* C26: linesOfCode is the number of lines that are not blank;
\* functionCount is the number of declaration heads (function and a name)
\* in the raw text, whatever the segmentation made of them: at least the
\* number of records, and more when a header line did not become a record.
C26_CountsOverRawSource ==
    pc = "measured" =>
        /\ metrics.linesOfCode = Cardinality(WrittenLines)
        /\ metrics.functionCount = HeadCount(Text)
        /\ metrics.functionCount >= Len(Segmented)
        /\ LostHeaders # {} => metrics.functionCount > Len(Segmented)

\* C26 witness: a text with a blank line of spaces, a record, and a header
\* line that did not become a record.
C26_Witness ==
    /\ pc = "measured"
    /\ SourceMode
    /\ \E i \in 1..Len(lines) : lines[i] # "" /\ i \notin WrittenLines
    /\ Len(Segmented) >= 1
    /\ LostHeaders # {}

\* the n-th accepted user message has its reply: there are n assistant messages
Answered(n) == Cardinality(AssistantMessages(chat)) >= n

\* what holds of the chat at every moment: without the key the upstream API
\* is never called and every reply is the local one; every accepted user
\* message has one reply or one call under way, never more; with no call
\* under way the chat is not loading
ChatInvariant ==
    /\ ~chat.hasKey =>
          /\ chat.upstream = 0
          /\ \A k \in AssistantMessages(chat) : chat.messages[k].content = "fallback"
    /\ \A i \in 1..Len(chat.calls) :
          (chat.calls[i].phase = "failed" /\ ~chat.hasKey) => chat.upstream = 0
    /\ Cardinality(AssistantMessages(chat)) + Len(chat.calls)
          = Cardinality(UserMessages(chat))
    /\ chat.calls = <<>> => ~chat.isLoading

\* C27: when the copilot request fails, as it does without OPENAI_API_KEY
\* (status 500, no call to the upstream API), the chat appends the locally
\* generated reply: every accepted user message is in the end followed by
\* exactly one assistant message, and the chat gets back to not loading.
C27_FallbackReplyFollows ==
    /\ []ChatInvariant
    /\ \A n \in 1..MaxChat :
          (Cardinality(UserMessages(chat)) >= n) ~> Answered(n)
    /\ chat.isLoading ~> (~chat.isLoading /\ chat.calls = <<>>)

\* C27 witness: on a server without the key two user messages were
\* accepted, both got the local reply, and the chat is not loading.
C27_Witness ==
    /\ ~chat.hasKey
    /\ Cardinality(UserMessages(chat)) >= 2
    /\ Cardinality(AssistantMessages(chat)) = Cardinality(UserMessages(chat))
    /\ \A k \in AssistantMessages(chat) : chat.messages[k].content = "fallback"
    /\ ~chat.isLoading

\* C28: a finding list with three or more findings of severity high gets
\* the level critical.
C28_ThreeHighIsCritical ==
    (pc = "levelled" /\ Tally(vulnerabilities, "high") >= 3) => riskLevel = "critical"

\* C28 witness: a list of exactly three high findings has the score 60 and
\* the level high.
C28_Witness ==
    /\ pc = "levelled"
    /\ Len(vulnerabilities) = 3
    /\ Tally(vulnerabilities, "high") = 3
    /\ riskScore = 60
    /\ riskLevel = "high"

\* every finding of the report has the severity low
OnlyLowFindings ==
    \A k \in 1..Len(Report.vulnerabilities) : Report.vulnerabilities[k].severity = "low"

\* C29: a report whose findings are all of severity low has the level low:
\* it holds one finding, the overflow finding or the informational one, and
\* its score is 5.
C29_OnlyLowIsLow ==
    (Resolved /\ OnlyLowFindings) =>
        /\ Report.riskLevel = "low"
        /\ Report.riskScore = 5
        /\ Len(Report.vulnerabilities) = 1
        /\ Report.vulnerabilities[1].title \in {OverflowTitle, InfoTitle}

\* C29 witness: the report of a text with several lines of arithmetic holds
\* the overflow finding alone.
C29_Witness ==
    /\ Resolved
    /\ OnlyLowFindings
    /\ Report.vulnerabilities[1].title = OverflowTitle
    /\ Cardinality(ArithmeticLines) >= 2

\* C30: no finding of a report has the severity critical: every severity is
\* low, medium or high, criticalCount is 0, and a report has the level
\* critical only with a score of 65 or more.
C30_NoCriticalFinding ==
    Resolved =>
        /\ \A k \in 1..Len(Report.vulnerabilities) :
              Report.vulnerabilities[k].severity \in {"low", "medium", "high"}
        /\ Report.metrics.criticalCount = 0
        /\ Report.riskLevel = "critical" =>
              /\ Report.riskScore >= 65
              /\ 20 * Tally(Report.vulnerabilities, "high")
                    + 10 * Tally(Report.vulnerabilities, "medium")
                    + 5 * Tally(Report.vulnerabilities, "low") >= 65

\* C30 witness: a report with the level critical and findings of two
\* detectors, none of them critical.
C30_Witness ==
    /\ Resolved
    /\ Report.riskLevel = "critical"
    /\ Report.metrics.criticalCount = 0
    /\ \E i, j \in 1..Len(Report.vulnerabilities) :
          Report.vulnerabilities[i].title # Report.vulnerabilities[j].title

====
